---- MODULE Spec2Model ----
(***************************************************************************)
(* Motion playback of the stand-up-front motion:                           *)
(*   crates/motionfile/src/motion_interpolator.rs  MotionInterpolator      *)
(*   crates/control/src/motion/stand_up_front.rs   StandUpFront            *)
(*                                                                         *)
(* Time is counted in ticks of 0.5 s, poses are one-dimensional and        *)
(* counted in quarters of a unit ([1.0] is 4, [1.25] is 5).                *)
(* Frame indices are the 0-based indices of the Rust code; the sequence    *)
(* `frames` is 1-based, so frame i is frames[i + 1].                       *)
(***************************************************************************)
EXTENDS Integers, Sequences, FiniteSets, TLC

VARIABLES
    motion_file,              \* the MotionFile handed to TryFrom
    construction,             \* "Pending" | "Ok" | "Err" | "Panic": outcome of TryFrom
    frames,                   \* MotionInterpolator::frames
    current_state,            \* MotionInterpolator::current_state
    seeding,                  \* progress of the sequence reset(), set_initial_positions(p), advance_by
    fed,                      \* the time steps handed to advance_by since construction or reset (scenario runs only)
    current_motion,           \* motion_selection.current_motion of the last cycle
    motion_finished,          \* motion_finished[MotionType::StandUpFront]
    stand_up_front_positions, \* MainOutputs::stand_up_front_positions of the last cycle
    world_state,              \* the WorldState handed to behavior::stand_up::execute
    motion_command,           \* what execute returned last
    unused_points,            \* Ransac::unused_points
    ransac_result,            \* what Ransac::next_line returned last
    largest_step              \* the largest time step handed to advance_by since construction (tracked runs only)

\* The state of the behavior selector and of the line fitting, which the
\* playback does not touch.
outside_playback == <<world_state, motion_command, unused_points, ransac_result>>

vars == <<motion_file, construction, frames, current_state, seeding, fed,
          current_motion, motion_finished, stand_up_front_positions,
          world_state, motion_command, unused_points, ransac_result,
          largest_step>>

(***************************************************************************)
(* Bounds of the model.                                                    *)
(***************************************************************************)
MaxFrames == 2
MaxDur == 2
MaxStep == 2
MaxElapsed == 2
MaxFed == 10
MaxTime == 5             \* start times of a StandingUp fall state
MaxPoints == 3           \* unused points of a Ransac
MaxCoordinate == 2       \* x coordinates of the points
MaxIterations == 1       \* next_line: iterations
MaxDistance == 1         \* next_line: maximum_score_distance, maximum_inclusion_distance

TimeSteps == 0 .. MaxStep
Durations == 0 .. MaxDur
Poses == {0, 2}
AuthoredPoses == {0}
Responses == {"Continue", "Wait", "Abort"}
OptionalCondition == {"None", "Some"}
MotionTypes == {"StandUpFront", "Stand"}

(***************************************************************************)
(* State, Side                                                             *)
(***************************************************************************)
CheckEntry(index, time) ==
    [tag |-> "CheckEntry", current_frame_index |-> index, time_since_start |-> time]

InterpolateSpline(index, time) ==
    [tag |-> "InterpolateSpline", current_frame_index |-> index, time_since_start |-> time]

CheckExit(index, time) ==
    [tag |-> "CheckExit", current_frame_index |-> index, time_since_start |-> time]

Finished == [tag |-> "Finished"]

Aborted(side, index) ==
    [tag |-> "Aborted", frame_side |-> side, from_frame_index |-> index]

StateDefault == CheckEntry(0, 0)

(***************************************************************************)
(* TimedSpline and Condition: crates/motionfile/src/timed_spline.rs and    *)
(* condition.rs.  A curve is one segment from its start value to its end   *)
(* value; value_at is the start value at time 0, linear in between and the *)
(* end value from the total duration on.  Durations are natural numbers.   *)
(***************************************************************************)
TimedSpline(start, end, end_time) ==
    [start |-> start, end |-> end, end_time |-> end_time]

total_duration(spline) == spline.end_time

start_position(spline) == spline.start

end_position(spline) == spline.end

value_at(spline, time_point) ==
    IF time_point <= 0 THEN spline.start
    ELSE IF time_point >= spline.end_time THEN spline.end
    ELSE spline.start + ((spline.end - spline.start) * time_point) \div spline.end_time

spline_set_initial_positions(spline, position) ==
    [spline EXCEPT !.start = position]

\* Result of TimedSpline::try_new_with_start: an error for malformed keyframes.
try_new_with_start(initial_positions, frame) ==
    IF frame.keyframes_valid
    THEN [kind |-> "Ok",
          value |-> TimedSpline(initial_positions, frame.positions, frame.duration)]
    ELSE [kind |-> "Err"]

\* The response of a condition to this cycle's condition input and to the
\* elapsed time it is handed.  An input snapshot is represented by the
\* response it makes the condition give; under "ContinueOnceWaited" the
\* condition answers Wait at elapsed time 0 and Continue later.
evaluate(condition_input, time_since_start) ==
    IF condition_input = "ContinueOnceWaited"
    THEN IF time_since_start = 0 THEN "Wait" ELSE "Continue"
    ELSE condition_input

\* Every condition input: the three that fix the response and the one whose
\* response depends on the elapsed time.
ConditionInputs == Responses \cup {"ContinueOnceWaited"}

(***************************************************************************)
(* MotionFile: the parsed motion description.  Each frame carries one      *)
(* keyframe (its duration and positions); frame i ends at                  *)
(* KeyframePositions(i), so that the start and end values of every curve   *)
(* differ.                                                                 *)
(***************************************************************************)
KeyframePositions(index) == 4 * (index + 1)

FrameShapes(valid) ==
    [entry_condition : OptionalCondition, duration : Durations,
     keyframes_valid : valid, exit_condition : OptionalCondition]

MotionOfShape(shape) ==
    [i \in DOMAIN shape |->
        [entry_condition |-> shape[i].entry_condition,
         duration |-> shape[i].duration,
         positions |-> KeyframePositions(i - 1),
         keyframes_valid |-> shape[i].keyframes_valid,
         exit_condition |-> shape[i].exit_condition]]

MotionFileOf(position, shape) ==
    [initial_positions |-> position, motion |-> MotionOfShape(shape)]

ConditionedSpline(entry_condition, spline, exit_condition) ==
    [entry_condition |-> entry_condition, spline |-> spline,
     exit_condition |-> exit_condition]

(***************************************************************************)
(* impl TryFrom<MotionFile<T>> for MotionInterpolator<T>                   *)
(***************************************************************************)
\* Faulty variant: every curve starts at initial_positions, so consecutive
\* frames are not chained.
frame_start_unchained(file, i) == file.initial_positions

\* The start value of frame i's curve (i is 1-based here): initial_positions
\* for the first frame, the last keyframe of the frame before otherwise.
frame_start(file, i) ==
    IF i = 1 THEN file.initial_positions ELSE file.motion[i - 1].positions

try_from(file) ==
    IF file.motion = <<>>
    THEN [kind |-> "Panic"]                       \* motion.first().unwrap()
    ELSE LET built == [i \in DOMAIN file.motion |->
                          try_new_with_start(frame_start(file, i), file.motion[i])]
         IN IF \E i \in DOMAIN built : built[i].kind = "Err"
            THEN [kind |-> "Err"]                 \* the ? of either call
            ELSE [kind |-> "Ok",
                  frames |-> [i \in DOMAIN built |->
                                 ConditionedSpline(file.motion[i].entry_condition,
                                                   built[i].value,
                                                   file.motion[i].exit_condition)],
                  current_state |-> CheckEntry(0, 0)]

(***************************************************************************)
(* MotionInterpolator::advance_by, one definition per arm of its match     *)
(***************************************************************************)
\* Faulty variant: an entry abort recorded as an abort on the exit side.
advance_check_entry_wrong_side(fs, current_frame_index, time_since_start, time_step, condition_input) ==
    LET current_frame == fs[current_frame_index + 1]
        response == IF current_frame.entry_condition = "Some"
                    THEN evaluate(condition_input, time_since_start)
                    ELSE "None"
    IN CASE response = "Abort" -> Aborted("Exit", current_frame_index)
         [] response = "Wait" -> CheckEntry(current_frame_index, time_since_start + time_step)
         [] OTHER -> InterpolateSpline(current_frame_index, 0)

\* Faulty variant: while waiting the elapsed time is replaced by the time step
\* instead of growing by it.
advance_check_entry_wait_restarts(fs, current_frame_index, time_since_start, time_step, condition_input) ==
    LET current_frame == fs[current_frame_index + 1]
        response == IF current_frame.entry_condition = "Some"
                    THEN evaluate(condition_input, time_since_start)
                    ELSE "None"
    IN CASE response = "Abort" -> Aborted("Entry", current_frame_index)
         [] response = "Wait" -> CheckEntry(current_frame_index, time_step)
         [] OTHER -> InterpolateSpline(current_frame_index, 0)

\* Faulty variant: the step that enters the interpolation keeps its time step.
advance_check_entry_keeps_step(fs, current_frame_index, time_since_start, time_step, condition_input) ==
    LET current_frame == fs[current_frame_index + 1]
        response == IF current_frame.entry_condition = "Some"
                    THEN evaluate(condition_input, time_since_start)
                    ELSE "None"
    IN CASE response = "Abort" -> Aborted("Entry", current_frame_index)
         [] response = "Wait" -> CheckEntry(current_frame_index, time_since_start + time_step)
         [] OTHER -> InterpolateSpline(current_frame_index, time_step)

advance_check_entry(fs, current_frame_index, time_since_start, time_step, condition_input) ==
    LET current_frame == fs[current_frame_index + 1]
        response == IF current_frame.entry_condition = "Some"
                    THEN evaluate(condition_input, time_since_start)
                    ELSE "None"
    IN CASE response = "Abort" -> Aborted("Entry", current_frame_index)
         [] response = "Wait" -> CheckEntry(current_frame_index, time_since_start + time_step)
         [] OTHER -> InterpolateSpline(current_frame_index, 0)

\* Faulty variant: the time step is added before the comparison with the duration.
advance_interpolate_spline_step_first(fs, current_frame_index, time_since_start, time_step) ==
    LET current_frame == fs[current_frame_index + 1]
    IN IF time_since_start + time_step >= total_duration(current_frame.spline)
       THEN CheckExit(current_frame_index, 0)
       ELSE InterpolateSpline(current_frame_index, time_since_start + time_step)

\* Faulty variant: > in place of >=.
advance_interpolate_spline_strict(fs, current_frame_index, time_since_start, time_step) ==
    LET current_frame == fs[current_frame_index + 1]
    IN IF time_since_start > total_duration(current_frame.spline)
       THEN CheckExit(current_frame_index, 0)
       ELSE InterpolateSpline(current_frame_index, time_since_start + time_step)

\* Faulty variant: the curve is left one time step late.
advance_interpolate_spline_overshoots(fs, current_frame_index, time_since_start, time_step) ==
    LET current_frame == fs[current_frame_index + 1]
    IN IF time_since_start >= total_duration(current_frame.spline) + time_step
       THEN CheckExit(current_frame_index, 0)
       ELSE InterpolateSpline(current_frame_index, time_since_start + time_step)

advance_interpolate_spline(fs, current_frame_index, time_since_start, time_step) ==
    LET current_frame == fs[current_frame_index + 1]
    IN IF time_since_start >= total_duration(current_frame.spline)
       THEN CheckExit(current_frame_index, 0)
       ELSE InterpolateSpline(current_frame_index, time_since_start + time_step)

\* Faulty variant: the last frame is compared with len() in place of len() - 1.
advance_check_exit_past_end(fs, current_frame_index, time_since_start, time_step, condition_input) ==
    LET current_frame == fs[current_frame_index + 1]
        response == IF current_frame.exit_condition = "Some"
                    THEN evaluate(condition_input, time_since_start)
                    ELSE "None"
    IN CASE response = "Abort" -> Aborted("Exit", current_frame_index)
         [] response = "Wait" -> CheckExit(current_frame_index, time_since_start + time_step)
         [] response \notin {"Abort", "Wait"} /\ current_frame_index < Len(fs) ->
                CheckEntry(current_frame_index + 1, 0)
         [] OTHER -> Finished

\* Faulty variant: after the last frame the motion starts over instead of finishing.
advance_check_exit_start_over(fs, current_frame_index, time_since_start, time_step, condition_input) ==
    LET current_frame == fs[current_frame_index + 1]
        response == IF current_frame.exit_condition = "Some"
                    THEN evaluate(condition_input, time_since_start)
                    ELSE "None"
    IN CASE response = "Abort" -> Aborted("Exit", current_frame_index)
         [] response = "Wait" -> CheckExit(current_frame_index, time_since_start + time_step)
         [] response \notin {"Abort", "Wait"} /\ current_frame_index < Len(fs) - 1 ->
                CheckEntry(current_frame_index + 1, 0)
         [] OTHER -> CheckEntry(0, 0)

\* Faulty variant: the end of the motion is detected before the exit condition
\* is evaluated, so the last frame cannot abort or wait on its exit side.
advance_check_exit_finish_first(fs, current_frame_index, time_since_start, time_step, condition_input) ==
    LET current_frame == fs[current_frame_index + 1]
        response == IF current_frame.exit_condition = "Some"
                    THEN evaluate(condition_input, time_since_start)
                    ELSE "None"
    IN CASE current_frame_index >= Len(fs) - 1 -> Finished
         [] response = "Abort" -> Aborted("Exit", current_frame_index)
         [] response = "Wait" -> CheckExit(current_frame_index, time_since_start + time_step)
         [] OTHER -> CheckEntry(current_frame_index + 1, 0)

\* Faulty variant: a wait on the exit side is given up after one tick.
advance_check_exit_wait_times_out(fs, current_frame_index, time_since_start, time_step, condition_input) ==
    LET current_frame == fs[current_frame_index + 1]
        response == IF current_frame.exit_condition = "Some"
                    THEN evaluate(condition_input, time_since_start)
                    ELSE "None"
    IN CASE response = "Abort" -> Aborted("Exit", current_frame_index)
         [] response = "Wait" /\ time_since_start >= 1 -> Aborted("Exit", current_frame_index)
         [] response = "Wait" -> CheckExit(current_frame_index, time_since_start + time_step)
         [] response \notin {"Abort", "Wait"} /\ current_frame_index < Len(fs) - 1 ->
                CheckEntry(current_frame_index + 1, 0)
         [] OTHER -> Finished

\* Faulty variant: the frame index is not increased, the frame is played again.
advance_check_exit_repeats_frame(fs, current_frame_index, time_since_start, time_step, condition_input) ==
    LET current_frame == fs[current_frame_index + 1]
        response == IF current_frame.exit_condition = "Some"
                    THEN evaluate(condition_input, time_since_start)
                    ELSE "None"
    IN CASE response = "Abort" -> Aborted("Exit", current_frame_index)
         [] response = "Wait" -> CheckExit(current_frame_index, time_since_start + time_step)
         [] response \notin {"Abort", "Wait"} /\ current_frame_index < Len(fs) - 1 ->
                CheckEntry(current_frame_index, 0)
         [] OTHER -> Finished

advance_check_exit(fs, current_frame_index, time_since_start, time_step, condition_input) ==
    LET current_frame == fs[current_frame_index + 1]
        response == IF current_frame.exit_condition = "Some"
                    THEN evaluate(condition_input, time_since_start)
                    ELSE "None"
    IN CASE response = "Abort" -> Aborted("Exit", current_frame_index)
         [] response = "Wait" -> CheckExit(current_frame_index, time_since_start + time_step)
         [] response \notin {"Abort", "Wait"} /\ current_frame_index < Len(fs) - 1 ->
                CheckEntry(current_frame_index + 1, 0)
         [] OTHER -> Finished

\* Faulty variant: an advance in Finished starts the motion over.
advance_by_finished_restarts(fs, state, time_step, condition_input) ==
    CASE state.tag = "CheckEntry" ->
            advance_check_entry(fs, state.current_frame_index, state.time_since_start,
                                time_step, condition_input)
      [] state.tag = "InterpolateSpline" ->
            advance_interpolate_spline(fs, state.current_frame_index,
                                       state.time_since_start, time_step)
      [] state.tag = "CheckExit" ->
            advance_check_exit(fs, state.current_frame_index, state.time_since_start,
                               time_step, condition_input)
      [] state.tag = "Finished" -> CheckEntry(0, 0)
      [] state.tag = "Aborted" -> Aborted(state.frame_side, state.from_frame_index)

\* Faulty variant: an input that makes conditions answer Abort also aborts a
\* running interpolation.
advance_by_abort_interrupts(fs, state, time_step, condition_input) ==
    CASE state.tag = "CheckEntry" ->
            advance_check_entry(fs, state.current_frame_index, state.time_since_start,
                                time_step, condition_input)
      [] state.tag = "InterpolateSpline" ->
            IF evaluate(condition_input, state.time_since_start) = "Abort"
            THEN Aborted("Entry", state.current_frame_index)
            ELSE advance_interpolate_spline(fs, state.current_frame_index,
                                            state.time_since_start, time_step)
      [] state.tag = "CheckExit" ->
            advance_check_exit(fs, state.current_frame_index, state.time_since_start,
                               time_step, condition_input)
      [] state.tag = "Finished" -> Finished
      [] state.tag = "Aborted" -> Aborted(state.frame_side, state.from_frame_index)

advance_by(fs, state, time_step, condition_input) ==
    CASE state.tag = "CheckEntry" ->
            advance_check_entry(fs, state.current_frame_index, state.time_since_start,
                                time_step, condition_input)
      [] state.tag = "InterpolateSpline" ->
            advance_interpolate_spline(fs, state.current_frame_index,
                                       state.time_since_start, time_step)
      [] state.tag = "CheckExit" ->
            advance_check_exit(fs, state.current_frame_index, state.time_since_start,
                               time_step, condition_input)
      [] state.tag = "Finished" -> Finished
      [] state.tag = "Aborted" -> Aborted(state.frame_side, state.from_frame_index)

is_finished(state) == state.tag \in {"Finished", "Aborted"}

value(fs, state) ==
    CASE state.tag = "CheckEntry" -> start_position(fs[state.current_frame_index + 1].spline)
      [] state.tag = "InterpolateSpline" ->
            value_at(fs[state.current_frame_index + 1].spline, state.time_since_start)
      [] state.tag = "CheckExit" -> end_position(fs[state.current_frame_index + 1].spline)
      [] state.tag = "Finished" -> end_position(fs[Len(fs)].spline)
      [] state.tag = "Aborted" /\ state.frame_side = "Entry" ->
            start_position(fs[state.from_frame_index + 1].spline)
      [] state.tag = "Aborted" /\ state.frame_side = "Exit" ->
            end_position(fs[state.from_frame_index + 1].spline)

\* Faulty variant: a terminal cursor is not reset.
reset_unless_finished(state) ==
    IF state.tag \in {"Finished", "Aborted"} THEN state ELSE CheckEntry(0, 0)

\* Faulty variant: the cursor returns to the entry of the frame it is in.
reset_to_current_frame(state) ==
    CASE state.tag \in {"CheckEntry", "InterpolateSpline", "CheckExit"} ->
            CheckEntry(state.current_frame_index, 0)
      [] state.tag = "Aborted" -> CheckEntry(state.from_frame_index, 0)
      [] OTHER -> CheckEntry(0, 0)

reset(state) == CheckEntry(0, 0)

\* Faulty variant: last_mut() in place of first_mut().
set_initial_positions_last(fs, position) ==
    IF fs # <<>>
    THEN [fs EXCEPT ![Len(fs)].spline = spline_set_initial_positions(@, position)]
    ELSE fs

\* Faulty variant: the start value of every frame is replaced.
set_initial_positions_all(fs, position) ==
    [i \in DOMAIN fs |-> [fs[i] EXCEPT !.spline = spline_set_initial_positions(@, position)]]

set_initial_positions(fs, position) ==
    IF fs # <<>>
    THEN [fs EXCEPT ![1].spline = spline_set_initial_positions(@, position)]
    ELSE fs

(***************************************************************************)
(* StandUpFront: new, compute_stand_up_front, cycle                        *)
(***************************************************************************)
\* Faulty variant: the interpolator is advanced twice in one cycle.
compute_stand_up_front_twice(fs, state, finished, last_cycle_duration, condition_input) ==
    LET cleared == FALSE
        advanced == advance_by(fs,
                               advance_by(fs, state, last_cycle_duration, condition_input),
                               last_cycle_duration, condition_input)
    IN [current_state |-> advanced,
        motion_finished |-> IF is_finished(advanced) THEN TRUE ELSE cleared,
        positions |-> value(fs, advanced)]

compute_stand_up_front(fs, state, finished, last_cycle_duration, condition_input) ==
    LET cleared == FALSE            \* motion_finished[StandUpFront] = false
        advanced == advance_by(fs, state, last_cycle_duration, condition_input)
    IN [current_state |-> advanced,
        motion_finished |-> IF is_finished(advanced) THEN TRUE ELSE cleared,
        positions |-> value(fs, advanced)]

\* Faulty variant: the interpolator is not reset while the motion is not selected.
cycle_without_reset(fs, state, finished, motion, last_cycle_duration, condition_input) ==
    IF motion = "StandUpFront"
    THEN compute_stand_up_front(fs, state, finished, last_cycle_duration, condition_input)
    ELSE [current_state |-> state,
          motion_finished |-> finished,
          positions |-> value(fs, state)]

cycle(fs, state, finished, motion, last_cycle_duration, condition_input) ==
    IF motion = "StandUpFront"
    THEN compute_stand_up_front(fs, state, finished, last_cycle_duration, condition_input)
    ELSE [current_state |-> reset(state),
          motion_finished |-> finished,
          positions |-> value(fs, reset(state))]

(***************************************************************************)
(* behavior::stand_up::execute (crates/control/src/behavior/stand_up.rs)   *)
(* and the fall states it reads.  A fall state is Upright, Falling,        *)
(* Fallen { kind } or StandingUp { kind, start_time }.                     *)
(***************************************************************************)
Kinds == {"FacingDown", "FacingUp", "Sitting"}

StartTimes == 0 .. MaxTime

Upright == [tag |-> "Upright"]

Falling == [tag |-> "Falling"]

Fallen(kind) == [tag |-> "Fallen", kind |-> kind]

StandingUp(kind, start_time) ==
    [tag |-> "StandingUp", kind |-> kind, start_time |-> start_time]

FallStates ==
    {Upright, Falling}
        \cup {Fallen(kind) : kind \in Kinds}
        \cup {StandingUp(kind, start_time) : kind \in Kinds, start_time \in StartTimes}

WorldState(fall_state) == [robot |-> [fall_state |-> fall_state]]

\* Option<MotionCommand>: None, or Some(MotionCommand::StandUp { kind }).
None == [tag |-> "None"]

StandUp(kind) == [tag |-> "StandUp", kind |-> kind]

\* Nothing returned yet.
NotExecuted == [tag |-> "NotExecuted"]

\* Faulty variant: only a fallen robot is told to stand up, a robot that is
\* standing up is not.
execute_fallen_only(state) ==
    CASE state.robot.fall_state.tag = "Fallen" -> StandUp(state.robot.fall_state.kind)
      [] OTHER -> None

execute(state) ==
    CASE state.robot.fall_state.tag = "Fallen" -> StandUp(state.robot.fall_state.kind)
      [] state.robot.fall_state.tag = "StandingUp" -> StandUp(state.robot.fall_state.kind)
      [] OTHER -> None

(***************************************************************************)
(* vision::ransac::Ransac (crates/vision/src/ransac.rs).  Points lie on an *)
(* integer grid and the points of one Ransac differ from each other;       *)
(* distances are positive whole numbers.  A distance is compared through   *)
(* its square, as the code does.  The random number generator is a free    *)
(* choice: all iterations may draw the same two points, so the line that   *)
(* wins the scoring can be the line through any two unused points, and it  *)
(* is always the line through two of them.                                 *)
(***************************************************************************)
Abscissas == 0 .. MaxCoordinate

Ordinates == {0, 1}

Points == [x : Abscissas, y : Ordinates]

Iterations == 0 .. MaxIterations

Distances == 1 .. MaxDistance

\* types::line::Line(first, second)
Line(first, second) == [first |-> first, second |-> second]

\* line.squared_distance_to_point(point) <= distance * distance, for the
\* line through two different points.
squared_distance_within(line, point, distance) ==
    LET dx == line.second.x - line.first.x
        dy == line.second.y - line.first.y
        cross == dx * (point.y - line.first.y) - dy * (point.x - line.first.x)
    IN cross * cross <= distance * distance * (dx * dx + dy * dy)

\* Option<Line2>::Some
Some(line) == [tag |-> "Some", line |-> line]

RansacResult(line, used_points) ==
    [tag |-> "RansacResult", line |-> line, used_points |-> used_points]

\* A panic of next_line: the thread unwinds, unused_points is as it was.
Panicked == [tag |-> "Panic"]

\* Nothing returned yet.
NotCalled == [tag |-> "NotCalled"]

\* What choose_multiple(rng, 2) can draw in the iteration that wins: the
\* indices of two different unused points.
Choices(points) ==
    {choice \in (1 .. Len(points)) \X (1 .. Len(points)) : choice[1] # choice[2]}

\* The draws of one call: none is made with fewer than two points, and the
\* pair <<1, 2>> stands for "nothing drawn".
Draws(points) == IF Len(points) >= 2 THEN Choices(points) ELSE {<<1, 2>>}

\* next_line after its early return: sampling, scoring and the partition of
\* the unused points.
fit_line(points, iterations, maximum_score_distance, maximum_inclusion_distance, choice) ==
    IF iterations = 0
    THEN [result |-> Panicked, unused_points |-> points]    \* max_by_key(..).expect(..)
    ELSE IF Len(points) < 2
    THEN [result |-> Panicked, unused_points |-> points]    \* points.next().unwrap()
    ELSE LET best_line == Line(points[choice[1]], points[choice[2]])
             included(point) ==
                 squared_distance_within(best_line, point, maximum_inclusion_distance)
             excluded(point) == ~included(point)
         IN [result |-> RansacResult(Some(best_line), SelectSeq(points, included)),
             unused_points |-> SelectSeq(points, excluded)]

\* Faulty variant: the early return is taken for no point only.
next_line_needs_one(points, iterations, maximum_score_distance, maximum_inclusion_distance, choice) ==
    IF Len(points) < 1
    THEN [result |-> RansacResult(None, <<>>), unused_points |-> points]
    ELSE fit_line(points, iterations, maximum_score_distance,
                  maximum_inclusion_distance, choice)

next_line(points, iterations, maximum_score_distance, maximum_inclusion_distance, choice) ==
    IF Len(points) < 2
    THEN [result |-> RansacResult(None, <<>>), unused_points |-> points]
    ELSE fit_line(points, iterations, maximum_score_distance,
                  maximum_inclusion_distance, choice)

(***************************************************************************)
(* The sequence reset(), set_initial_positions(p), advance_by that resumes *)
(* playback from the robot's pose: `seeding` follows it.                   *)
(***************************************************************************)
SeedingIdle == [stage |-> "Idle", pose |-> -1]

SeedingAfterReset == [stage |-> "Reset", pose |-> -1]

SeedingAfterSeed(position) ==
    IF seeding.stage = "Reset" THEN [stage |-> "Seeded", pose |-> position] ELSE SeedingIdle

\* The advance that follows the seeding enters the curve when the entry
\* condition of frame 0 is absent or answers Continue.
SeedingAfterAdvance(condition_input) ==
    IF /\ seeding.stage = "Seeded"
       /\ current_state.tag = "CheckEntry"
       /\ \/ frames[current_state.current_frame_index + 1].entry_condition = "None"
          \/ evaluate(condition_input, current_state.time_since_start) = "Continue"
    THEN [stage |-> "Advanced", pose |-> seeding.pose]
    ELSE SeedingIdle

(***************************************************************************)
(* Initial states                                                          *)
(***************************************************************************)
\* Nothing has been asked of the behavior selector or of the line fitting.
BehaviorIdle ==
    /\ world_state = WorldState(Upright)
    /\ motion_command = NotExecuted

RansacIdle ==
    /\ unused_points = <<>>
    /\ ransac_result = NotCalled

OutsidePlaybackIdle ==
    /\ BehaviorIdle
    /\ RansacIdle

PlaybackConstructed(file) ==
    LET built == try_from(file)
    IN /\ motion_file = file
       /\ construction = built.kind
       /\ frames = built.frames
       /\ current_state = built.current_state
       /\ seeding = SeedingIdle
       /\ fed = <<>>
       /\ current_motion = "Stand"
       /\ motion_finished = FALSE
       /\ stand_up_front_positions = -1          \* nothing published yet
       /\ largest_step = 0

Constructed(file) ==
    /\ PlaybackConstructed(file)
    /\ OutsidePlaybackIdle

\* The state after StandUpFront::new on a well-formed motion file.
Init ==
    \E n \in 1 .. MaxFrames : \E position \in AuthoredPoses, shape \in [1 .. n -> FrameShapes({TRUE})] :
        Constructed(MotionFileOf(position, shape))

\* Before StandUpFront::new, with any motion file: also an empty or a
\* malformed one.
InitNew ==
    /\ \E n \in 0 .. MaxFrames : \E position \in Poses, shape \in [1 .. n -> FrameShapes(BOOLEAN)] :
          motion_file = MotionFileOf(position, shape)
    /\ construction = "Pending"
    /\ frames = <<>>
    /\ current_state = StateDefault
    /\ seeding = SeedingIdle
    /\ fed = <<>>
    /\ current_motion = "Stand"
    /\ motion_finished = FALSE
    /\ stand_up_front_positions = -1
    /\ largest_step = 0
    /\ OutsidePlaybackIdle

NoConditions(file) ==
    \A i \in DOMAIN file.motion :
        /\ file.motion[i].entry_condition = "None"
        /\ file.motion[i].exit_condition = "None"

\* Motion files without entry and exit conditions.
InitPlay ==
    \E n \in 1 .. MaxFrames : \E position \in Poses, shape \in [1 .. n -> FrameShapes({TRUE})] :
        /\ NoConditions(MotionFileOf(position, shape))
        /\ Constructed(MotionFileOf(position, shape))

\* The 2-phase scenario: [0.0] to [1.0] in 1.0 s, then to [2.0] in 2.0 s.
ScenarioFile ==
    [initial_positions |-> 0,
     motion |-> <<[entry_condition |-> "None", duration |-> 2, positions |-> 4,
                   keyframes_valid |-> TRUE, exit_condition |-> "None"],
                  [entry_condition |-> "None", duration |-> 4, positions |-> 8,
                   keyframes_valid |-> TRUE, exit_condition |-> "None"]>>]

\* advance(0.5 s) and advance(1.5 s)
ScenarioSteps == {1, 3}

InitScenario == Constructed(ScenarioFile)

\* Before the first call of execute, in any fall state.
InitBehavior ==
    /\ PlaybackConstructed(ScenarioFile)
    /\ \E fall_state \in FallStates : world_state = WorldState(fall_state)
    /\ motion_command = NotExecuted
    /\ RansacIdle

\* Ransac::new(unused_points), with up to MaxPoints different points.
InitRansac ==
    /\ PlaybackConstructed(ScenarioFile)
    /\ BehaviorIdle
    /\ \E n \in 0 .. MaxPoints : \E points \in [1 .. n -> Points] :
          /\ \A i, j \in 1 .. n : points[i] = points[j] => i = j
          /\ unused_points = points
    /\ ransac_result = NotCalled

(***************************************************************************)
(* Actions                                                                 *)
(***************************************************************************)
\* StandUpFront::new: `MotionFile::from_path(..)?.try_into()?`
New ==
    /\ construction = "Pending"
    /\ LET built == try_from(motion_file)
       IN /\ construction' = built.kind
          /\ frames' = IF built.kind = "Ok" THEN built.frames ELSE frames
          /\ current_state' = IF built.kind = "Ok" THEN built.current_state
                              ELSE current_state
    /\ UNCHANGED <<motion_file, seeding, fed, current_motion, motion_finished,
                   stand_up_front_positions>>
    /\ UNCHANGED outside_playback
    /\ UNCHANGED largest_step

\* A waiting CheckEntry or CheckExit counts its time up to MaxElapsed.
\* #[derive(Default)] on MotionInterpolator: Vec::default() for the frames and
\* State::default() for the cursor.
MotionInterpolatorDefault ==
    /\ construction = "Pending"
    /\ construction' = "Default"
    /\ frames' = <<>>
    /\ current_state' = StateDefault
    /\ UNCHANGED <<motion_file, seeding, fed, current_motion, motion_finished,
                   stand_up_front_positions>>
    /\ UNCHANGED outside_playback
    /\ UNCHANGED largest_step

WithinBounds(state) ==
    state.tag \in {"CheckEntry", "CheckExit"} => state.time_since_start <= MaxElapsed

Advance(time_step, condition_input) ==
    /\ construction = "Ok"
    /\ LET next_state == advance_by(frames, current_state, time_step, condition_input)
       IN /\ WithinBounds(next_state)
          /\ current_state' = next_state
    /\ seeding' = SeedingAfterAdvance(condition_input)
    /\ UNCHANGED <<motion_file, construction, frames, current_motion, motion_finished,
                   stand_up_front_positions>>
    /\ UNCHANGED outside_playback

AdvanceBy(time_step, condition_input) ==
    /\ Advance(time_step, condition_input)
    /\ UNCHANGED <<fed, largest_step>>

Reset ==
    /\ construction = "Ok"
    /\ current_state' = reset(current_state)
    /\ seeding' = SeedingAfterReset
    /\ UNCHANGED <<motion_file, construction, frames, fed, current_motion,
                   motion_finished, stand_up_front_positions>>
    /\ UNCHANGED outside_playback
    /\ UNCHANGED largest_step

SetInitialPositions(position) ==
    /\ construction = "Ok"
    /\ frames' = set_initial_positions(frames, position)
    /\ seeding' = SeedingAfterSeed(position)
    /\ UNCHANGED <<motion_file, construction, current_state, fed, current_motion,
                   motion_finished, stand_up_front_positions>>
    /\ UNCHANGED outside_playback
    /\ UNCHANGED largest_step

\* Playback with positive time steps only.
Play ==
    \E time_step \in TimeSteps \ {0}, condition_input \in Responses :
        AdvanceBy(time_step, condition_input)

\* The scenario's calls, recorded in `fed`.
ScenarioAdvance(time_step) ==
    /\ Len(fed) < MaxFed
    /\ Advance(time_step, "Continue")
    /\ fed' = Append(fed, time_step)
    /\ UNCHANGED largest_step

ScenarioReset ==
    /\ construction = "Ok"
    /\ current_state' = reset(current_state)
    /\ fed' = <<>>
    /\ seeding' = SeedingAfterReset
    /\ UNCHANGED <<motion_file, construction, frames, current_motion,
                   motion_finished, stand_up_front_positions>>
    /\ UNCHANGED outside_playback
    /\ UNCHANGED largest_step

\* advance_by with the time step of the calls before it, recorded in `fed`.
FixedStepAdvance(time_step) ==
    /\ fed # <<>> => time_step = fed[1]
    /\ ScenarioAdvance(time_step)

\* advance_by, with the largest time step so far kept in `largest_step`.
TrackedAdvance(time_step, condition_input) ==
    /\ Advance(time_step, condition_input)
    /\ largest_step' = IF time_step > largest_step THEN time_step ELSE largest_step
    /\ UNCHANGED fed

\* StandUpFront::cycle with the cycle's inputs.
Cycle(motion, last_cycle_duration, condition_input) ==
    /\ construction = "Ok"
    /\ LET out == cycle(frames, current_state, motion_finished, motion,
                        last_cycle_duration, condition_input)
       IN /\ WithinBounds(out.current_state)
          /\ current_state' = out.current_state
          /\ motion_finished' = out.motion_finished
          /\ stand_up_front_positions' = out.positions
    /\ current_motion' = motion
    /\ UNCHANGED <<motion_file, construction, frames, seeding, fed>>
    /\ UNCHANGED outside_playback
    /\ UNCHANGED largest_step

\* The world state of the next cycle, as the other nodes have written it.
UpdateWorldState(fall_state) ==
    /\ world_state' = WorldState(fall_state)
    /\ UNCHANGED <<motion_file, construction, frames, current_state, seeding, fed,
                   current_motion, motion_finished, stand_up_front_positions,
                   motion_command, unused_points, ransac_result, largest_step>>

\* behavior::stand_up::execute(&world_state)
Execute ==
    /\ motion_command' = execute(world_state)
    /\ UNCHANGED <<motion_file, construction, frames, current_state, seeding, fed,
                   current_motion, motion_finished, stand_up_front_positions,
                   world_state, unused_points, ransac_result, largest_step>>

\* Ransac::next_line(iterations, maximum_score_distance,
\* maximum_inclusion_distance); choice is what the random number generator
\* draws (nothing is drawn with fewer than two points).
NextLine(iterations, maximum_score_distance, maximum_inclusion_distance) ==
    /\ ransac_result # Panicked
    /\ \E choice \in Draws(unused_points) :
          LET out == next_line(unused_points, iterations, maximum_score_distance,
                               maximum_inclusion_distance, choice)
          IN /\ unused_points' = out.unused_points
             /\ ransac_result' = out.result
    /\ UNCHANGED <<motion_file, construction, frames, current_state, seeding, fed,
                   current_motion, motion_finished, stand_up_front_positions,
                   world_state, motion_command, largest_step>>

(***************************************************************************)
(* Specifications                                                          *)
(***************************************************************************)
Next ==
    \/ \E time_step \in TimeSteps, condition_input \in Responses :
            AdvanceBy(time_step, condition_input)
    \/ Reset
    \/ \E position \in Poses : SetInitialPositions(position)

\* The playback state machine under any interleaving of its operations.
Spec == Init /\ [][Next]_vars

NextNew == New

\* Construction from any motion file.
SpecNew == InitNew /\ [][NextNew]_vars

NextObtain ==
    \/ New
    \/ MotionInterpolatorDefault

\* The two public ways to obtain a MotionInterpolator.
SpecObtain == InitNew /\ [][NextObtain]_vars

NextPlay == Play

\* Playback without conditions; the control loop calls advance_by every
\* cycle, so the call is never postponed forever.
SpecPlay == InitPlay /\ [][NextPlay]_vars /\ WF_vars(NextPlay)

NextScenario ==
    \/ \E time_step \in ScenarioSteps : ScenarioAdvance(time_step)
    \/ ScenarioReset

\* The 2-phase scenario driven by steps of 0.5 s and 1.5 s.
SpecScenario == InitScenario /\ [][NextScenario]_vars

NextFixedStep ==
    \/ \E time_step \in TimeSteps \ {0} : FixedStepAdvance(time_step)
    \/ ScenarioReset

\* Playback without conditions, advanced by one positive time step throughout.
SpecFixedStep == InitPlay /\ [][NextFixedStep]_vars

NextTracked ==
    \/ \E time_step \in TimeSteps, condition_input \in Responses :
            TrackedAdvance(time_step, condition_input)
    \/ Reset

\* Playback and reset, with the largest time step so far tracked.
SpecTracked == Init /\ [][NextTracked]_vars

NextConditions ==
    \/ \E time_step \in TimeSteps, condition_input \in ConditionInputs :
            AdvanceBy(time_step, condition_input)
    \/ Reset

\* Playback and reset under every condition input, the one whose response
\* depends on the elapsed time included.
SpecConditions == Init /\ [][NextConditions]_vars

NextCycle ==
    \E motion \in MotionTypes, last_cycle_duration \in TimeSteps,
       condition_input \in Responses :
        Cycle(motion, last_cycle_duration, condition_input)

\* The cycle executor, which alone owns the interpolator.
SpecCycle == Init /\ [][NextCycle]_vars

NextBehavior ==
    \/ \E fall_state \in FallStates : UpdateWorldState(fall_state)
    \/ Execute

\* The behavior selector, called on the world state of each cycle.
SpecBehavior == InitBehavior /\ [][NextBehavior]_vars

NextRansac ==
    \E iterations \in Iterations,
       maximum_score_distance \in Distances,
       maximum_inclusion_distance \in Distances :
        NextLine(iterations, maximum_score_distance, maximum_inclusion_distance)

\* Lines fitted one after the other to the points of one Ransac.
SpecRansac == InitRansac /\ [][NextRansac]_vars

(***************************************************************************)
(* Properties                                                              *)
(***************************************************************************)

\* The frame the cursor is in (CheckEntry, InterpolateSpline, CheckExit).
CurrentFrame == frames[current_state.current_frame_index + 1]

CurrentValue == value(frames, current_state)

\* C1, as stated: one advance from Interpolating(f, t) with
\* t + time_step >= total duration of frame f leaves the cursor at CheckExit(f, 0).
C1_LeavesWhenStepReachesDuration ==
    [][\A time_step \in TimeSteps, condition_input \in Responses :
          ( /\ current_state.tag = "InterpolateSpline"
            /\ current_state.time_since_start + time_step
                  >= total_duration(CurrentFrame.spline)
            /\ AdvanceBy(time_step, condition_input) )
          => current_state' = CheckExit(current_state.current_frame_index, 0)]_vars

\* C1, amended: one advance from Interpolating(f, t) leaves the cursor at
\* CheckExit(f, 0) exactly when t >= total duration of frame f, whatever the
\* time step; when t < total duration it leaves it at Interpolating(f, t + time_step),
\* also when t + time_step >= total duration.
C1_LeavesWhenElapsedReachedDuration ==
    [][\A time_step \in TimeSteps, condition_input \in Responses :
          ( /\ current_state.tag = "InterpolateSpline"
            /\ AdvanceBy(time_step, condition_input) )
          => current_state' =
                IF current_state.time_since_start >= total_duration(CurrentFrame.spline)
                THEN CheckExit(current_state.current_frame_index, 0)
                ELSE InterpolateSpline(current_state.current_frame_index,
                                       current_state.time_since_start + time_step)]_vars

\* C1, witness: an advance has kept the cursor interpolating although its step
\* carried the elapsed time past the total duration.
C1_Witness ==
    /\ current_state.tag = "InterpolateSpline"
    /\ current_state.time_since_start > total_duration(CurrentFrame.spline)
    /\ total_duration(CurrentFrame.spline) > 0

\* C2, as stated: in the scenario, after advance(0.5 s) twice (1.0 s fed) the
\* cursor is Interpolating(1, 0.5 s) with value [1.25], and after
\* advance(0.5 s) three times and advance(1.5 s) once (3.0 s fed)
\* is_finished() is true and value() is [2.0].
C2_ScenarioAsStated ==
    /\ fed = <<1, 1>> =>
          current_state = InterpolateSpline(1, 1) /\ CurrentValue = 5
    /\ fed = <<1, 1, 1, 3>> =>
          is_finished(current_state) /\ CurrentValue = 8

\* C2, amended: in the scenario, after advance(0.5 s) twice the cursor is
\* Interpolating(0, 0.5 s) with value [0.5]; after advance(0.5 s) three times
\* and advance(1.5 s) once it is CheckExit(0, 0) with value [1.0] and
\* is_finished() false.  Interpolating(1, 0.5 s), where value() is [1.25], takes
\* at least 6 calls, and is_finished(), with value [2.0], at least 9.
C2_ScenarioAmended ==
    /\ fed = <<1, 1>> =>
          current_state = InterpolateSpline(0, 1) /\ CurrentValue = 2
    /\ fed = <<1, 1, 1, 3>> =>
          /\ current_state = CheckExit(0, 0)
          /\ ~is_finished(current_state)
          /\ CurrentValue = 4
    /\ current_state = InterpolateSpline(1, 1) =>
          CurrentValue = 5 /\ Len(fed) >= 6
    /\ is_finished(current_state) =>
          CurrentValue = 8 /\ Len(fed) >= 9

\* C2, witness: the four calls of the scenario have been made.
C2_Witness ==
    /\ fed = <<1, 1, 1, 3>>
    /\ current_state = CheckExit(0, 0)

\* C3, as stated: after every cycle the finished flag is true only if the
\* motion was selected in that cycle and is_finished() held after its advance;
\* it is false after every cycle in which the motion is not selected.
C3_FlagOnlyWhenSelectedAndFinished ==
    motion_finished =>
        current_motion = "StandUpFront" /\ is_finished(current_state)

\* C4: without conditions and with positive time steps the cursor eventually
\* is Finished, and value() in Finished is the end value of the last curve.
C4_EventuallyFinished ==
    /\ <>(current_state = Finished)
    /\ [](current_state = Finished =>
            CurrentValue = end_position(frames[Len(frames)].spline))

\* C4, witness: a motion of more than one frame has been played to Finished.
C4_Witness ==
    /\ current_state = Finished
    /\ Len(frames) > 1
    /\ CurrentValue = KeyframePositions(Len(frames) - 1)

\* C5: an advance at CheckEntry(k, t) whose entry condition answers Abort
\* leaves the cursor at Aborted(Entry, k) with is_finished() true and value()
\* the start value of frame k, and every further advance keeps all three.
C5_EntryAbortIsTerminal ==
    [][\A time_step \in TimeSteps, condition_input \in Responses :
          /\ ( /\ current_state.tag = "CheckEntry"
               /\ CurrentFrame.entry_condition = "Some"
               /\ evaluate(condition_input, current_state.time_since_start) = "Abort"
               /\ AdvanceBy(time_step, condition_input) )
             => /\ current_state' = Aborted("Entry", current_state.current_frame_index)
                /\ is_finished(current_state')
                /\ value(frames', current_state') = start_position(CurrentFrame.spline)
          /\ ( /\ current_state.tag = "Aborted"
               /\ current_state.frame_side = "Entry"
               /\ AdvanceBy(time_step, condition_input) )
             => /\ current_state' = current_state
                /\ is_finished(current_state')
                /\ value(frames', current_state')
                      = start_position(frames[current_state.from_frame_index + 1].spline)
      ]_vars

\* C5, witness: the entry condition of the second frame has aborted the motion.
C5_Witness ==
    /\ current_state = Aborted("Entry", 1)
    /\ CurrentValue = KeyframePositions(0)

\* C6: right after reset() the cursor is CheckEntry(0, 0), value() is the
\* start value of frame 0 and is_finished() is false, and a second reset()
\* gives the same state.
C6_ResetRestarts ==
    seeding.stage = "Reset" =>
        /\ current_state = CheckEntry(0, 0)
        /\ CurrentValue = start_position(frames[1].spline)
        /\ ~is_finished(current_state)
        /\ reset(current_state) = current_state

\* C6, witness: reset() has been called on a machine whose start pose was
\* seeded before.
C6_Witness ==
    /\ seeding.stage = "Reset"
    /\ current_state = CheckEntry(0, 0)
    /\ CurrentValue # motion_file.initial_positions

\* C7: after reset(), set_initial_positions(p) and one advance whose entry
\* condition is absent or answers Continue, the cursor is Interpolating(0, 0)
\* and value() is p.
C7_SeedTakesEffect ==
    seeding.stage = "Advanced" =>
        /\ current_state = InterpolateSpline(0, 0)
        /\ CurrentValue = seeding.pose

\* C7, witness: the sequence has run with a pose other than the authored one.
C7_Witness ==
    /\ seeding.stage = "Advanced"
    /\ seeding.pose # motion_file.initial_positions
    /\ Len(frames) > 1

\* C8: a cycle in which the motion is not selected resets the interpolator
\* and publishes the start value of frame 0; the first selected cycle after
\* it advances from CheckEntry(0, 0) and publishes the start value of frame 0.
C8_DeselectionRestarts ==
    [][ /\ current_motion' # "StandUpFront" =>
              /\ current_state' = CheckEntry(0, 0)
              /\ stand_up_front_positions' = start_position(frames'[1].spline)
        /\ (current_motion # "StandUpFront" /\ current_motion' = "StandUpFront") =>
              /\ current_state = CheckEntry(0, 0)
              /\ \/ current_state' = InterpolateSpline(0, 0)
                 \/ current_state' = Aborted("Entry", 0)
                 \/ \E time_step \in TimeSteps : current_state' = CheckEntry(0, time_step)
              /\ stand_up_front_positions' = start_position(frames'[1].spline)
      ]_vars

\* C8, witness: the motion was deselected after it had finished (the flag is
\* still set) and the interpolator is back at the start of frame 0.
C8_Witness ==
    /\ current_motion # "StandUpFront"
    /\ motion_finished
    /\ current_state = CheckEntry(0, 0)
    /\ stand_up_front_positions = start_position(frames[1].spline)

\* C9, as stated: construction from a motion file with an empty phase list
\* yields an error result; it neither produces a machine nor crashes.
C9_EmptyMotionIsAnError ==
    (construction # "Pending" /\ motion_file.motion = <<>>) => construction = "Err"

\* A cursor whose frame index is an index of fs.
ValidState(fs, state) ==
    CASE state.tag \in {"CheckEntry", "InterpolateSpline", "CheckExit"} ->
            /\ state.current_frame_index \in 0 .. Len(fs) - 1
            /\ state.time_since_start \in Nat
      [] state.tag = "Finished" -> TRUE
      [] state.tag = "Aborted" ->
            /\ state.from_frame_index \in 0 .. Len(fs) - 1
            /\ state.frame_side \in {"Entry", "Exit"}
      [] OTHER -> FALSE

\* C10: in every reachable state of a machine over a non-empty sequence the
\* cursor's frame index is smaller than the number of frames, value() is
\* defined and every advance gives a next cursor.
C10_CursorWithinFrames ==
    /\ Len(frames) >= 1
    /\ ValidState(frames, current_state)
    /\ CurrentValue \in Int
    /\ \A time_step \in TimeSteps, condition_input \in Responses :
          ValidState(frames, advance_by(frames, current_state, time_step, condition_input))

\* C10, witness: a single frame with a zero-duration curve has been played
\* to Finished.
C10_Witness ==
    /\ Len(frames) = 1
    /\ total_duration(frames[1].spline) = 0
    /\ current_state = Finished

\* C11: every interpolator obtained through TryFrom<MotionFile> or through the
\* derived Default holds at least one frame, and value() before any advance is
\* the start value of frame 0.
C11_ObtainedHasAFrame ==
    construction \in {"Ok", "Default"} =>
        /\ Len(frames) >= 1
        /\ value(frames, current_state) = start_position(frames[1].spline)

\* C12: one advance from CheckEntry(f, t) with time step s gives
\* Interpolating(f, 0) when frame f has no entry condition or the condition
\* answers Continue, CheckEntry(f, t + s) when it answers Wait, and
\* Aborted(Entry, f) when it answers Abort; there is no other next cursor.
C12_CheckEntryTransitions ==
    [][\A time_step \in TimeSteps, condition_input \in Responses :
          (current_state.tag = "CheckEntry" /\ AdvanceBy(time_step, condition_input)) =>
              LET f == current_state.current_frame_index
                  t == current_state.time_since_start
                  conditioned == CurrentFrame.entry_condition = "Some"
              IN /\ (~conditioned \/ condition_input = "Continue") =>
                        current_state' = InterpolateSpline(f, 0)
                 /\ (conditioned /\ condition_input = "Wait") =>
                        current_state' = CheckEntry(f, t + time_step)
                 /\ (conditioned /\ condition_input = "Abort") =>
                        current_state' = Aborted("Entry", f)]_vars

\* The entry check of the second frame has answered Wait and time has passed.
C12_Witness ==
    /\ current_state.tag = "CheckEntry"
    /\ current_state.current_frame_index = 1
    /\ current_state.time_since_start > 0

\* C13: one advance from CheckExit(f, t) with time step s gives Finished when
\* frame f has no exit condition or the condition answers Continue and f is
\* the last frame, CheckEntry(f + 1, 0) under the same answer when f is not
\* the last frame, CheckExit(f, t + s) on Wait and Aborted(Exit, f) on Abort,
\* the last frame included.
C13_CheckExitTransitions ==
    [][\A time_step \in TimeSteps, condition_input \in Responses :
          (current_state.tag = "CheckExit" /\ AdvanceBy(time_step, condition_input)) =>
              LET f == current_state.current_frame_index
                  t == current_state.time_since_start
                  conditioned == CurrentFrame.exit_condition = "Some"
                  last == f = Len(frames) - 1
              IN /\ ((~conditioned \/ condition_input = "Continue") /\ last) =>
                        current_state' = Finished
                 /\ ((~conditioned \/ condition_input = "Continue") /\ ~last) =>
                        current_state' = CheckEntry(f + 1, 0)
                 /\ (conditioned /\ condition_input = "Wait") =>
                        current_state' = CheckExit(f, t + time_step)
                 /\ (conditioned /\ condition_input = "Abort") =>
                        current_state' = Aborted("Exit", f)]_vars

\* The exit check of the last of two frames has aborted.
C13_Witness ==
    /\ Len(frames) = 2
    /\ current_state = Aborted("Exit", 1)

\* C14: Finished and Aborted(side, f) are absorbing under advance: every
\* advance leaves the cursor, is_finished() and value() as they were, value()
\* being the end of the last frame in Finished, the start of frame f in
\* Aborted(Entry, f) and the end of frame f in Aborted(Exit, f); the only step
\* that leaves a terminal cursor is reset().
C14_TerminalStatesAbsorb ==
    [][/\ \A time_step \in TimeSteps, condition_input \in Responses :
            (is_finished(current_state) /\ AdvanceBy(time_step, condition_input)) =>
                /\ current_state' = current_state
                /\ is_finished(current_state')
                /\ value(frames', current_state') = value(frames, current_state)
                /\ current_state.tag = "Finished" =>
                       value(frames', current_state') =
                           end_position(frames[Len(frames)].spline)
                /\ (current_state.tag = "Aborted" /\ current_state.frame_side = "Entry") =>
                       value(frames', current_state') =
                           start_position(frames[current_state.from_frame_index + 1].spline)
                /\ (current_state.tag = "Aborted" /\ current_state.frame_side = "Exit") =>
                       value(frames', current_state') =
                           end_position(frames[current_state.from_frame_index + 1].spline)
       /\ (is_finished(current_state) /\ current_state' # current_state) =>
                /\ current_state' = reset(current_state)
                /\ seeding' = SeedingAfterReset]_vars

\* A motion of two frames has finished and holds the end of its last frame.
C14_Witness ==
    /\ Len(frames) = 2
    /\ current_state = Finished
    /\ CurrentValue = KeyframePositions(1)

\* C15: while a sequence built by TryFrom plays without abort, value() is the
\* same in CheckExit(f, _), in the CheckEntry(f + 1, 0) that follows and in
\* the Interpolating(f + 1, 0) that follows that, and value() in Finished is
\* the value held in the last CheckExit: no jump at a frame boundary.
C15_ContinuousAtBoundaries ==
    [][(/\ \/ current_state.tag = "CheckExit"
              /\ current_state'.tag \in {"CheckEntry", "Finished"}
           \/ current_state.tag = "CheckEntry"
              /\ current_state.current_frame_index >= 1
              /\ current_state'.tag = "InterpolateSpline"
        /\ \E time_step \in TimeSteps, condition_input \in Responses :
               AdvanceBy(time_step, condition_input)) =>
          /\ value(frames', current_state') = value(frames, current_state)
          /\ current_state.tag = "CheckEntry" =>
                 value(frames', current_state') =
                     value(frames, CheckExit(current_state.current_frame_index - 1, 0))]_vars

\* The second frame has just been entered and the value is still the end of
\* the first frame.
C15_Witness ==
    /\ Len(frames) = 2
    /\ current_state = InterpolateSpline(1, 0)
    /\ CurrentValue = end_position(frames[1].spline)

\* C16: in every cycle in which StandUpFront is selected the interpolator is
\* advanced exactly once, with the last cycle duration and the condition
\* input; the finished flag after the cycle is is_finished() after that
\* advance and the published pose is value() after that advance, also while
\* the cursor is terminal.
C16_SelectedCycleAdvancesOnce ==
    [][current_motion' = "StandUpFront" =>
          /\ motion_finished' = is_finished(current_state')
          /\ stand_up_front_positions' = value(frames', current_state')
          /\ \A last_cycle_duration \in TimeSteps, condition_input \in Responses :
                 \/ current_state' = advance_by(frames, current_state,
                                                last_cycle_duration, condition_input)
                 \/ ~Cycle("StandUpFront", last_cycle_duration, condition_input)]_vars

\* A selected cycle has advanced the interpolation of the second frame and
\* published the value there; the flag is false.
C16_Witness ==
    /\ current_motion = "StandUpFront"
    /\ current_state.tag = "InterpolateSpline"
    /\ current_state.current_frame_index = 1
    /\ current_state.time_since_start > 0
    /\ ~motion_finished
    /\ stand_up_front_positions = CurrentValue

\* C17: execute returns the stand-up command carrying the same kind when the
\* fall state is Fallen { kind } or StandingUp { kind, .. } and no command for
\* every other fall state; the result is determined by the fall state alone
\* and the call changes nothing else.
C17_StandUpExactlyWhenFallenOrStandingUp ==
    [][Execute =>
          LET fall_state == world_state.robot.fall_state
          IN /\ fall_state.tag \in {"Fallen", "StandingUp"} =>
                    motion_command' = StandUp(fall_state.kind)
             /\ fall_state.tag \notin {"Fallen", "StandingUp"} =>
                    motion_command' = None
             /\ world_state' = world_state
             /\ UNCHANGED <<frames, current_state, motion_finished, unused_points>>]_vars

\* A robot that is standing up from facing down has been told to stand up
\* from facing down.
C17_Witness ==
    /\ world_state.robot.fall_state.tag = "StandingUp"
    /\ world_state.robot.fall_state.kind = "FacingDown"
    /\ motion_command = StandUp("FacingDown")

\* C18: as long as the entry (resp. exit) condition of frame f answers Wait,
\* the cursor stays CheckEntry(f, _) (resp. CheckExit(f, _)), the elapsed time
\* grows by each time step, value() stays the start (resp. end) value of
\* frame f and is_finished() stays false: no timeout leaves the state.
C18_WaitKeepsWaiting ==
    [][\A time_step \in TimeSteps :
          /\ (/\ current_state.tag = "CheckEntry"
              /\ CurrentFrame.entry_condition = "Some"
              /\ AdvanceBy(time_step, "Wait")) =>
                 /\ current_state' =
                        CheckEntry(current_state.current_frame_index,
                                   current_state.time_since_start + time_step)
                 /\ value(frames', current_state') = start_position(CurrentFrame.spline)
                 /\ ~is_finished(current_state')
          /\ (/\ current_state.tag = "CheckExit"
              /\ CurrentFrame.exit_condition = "Some"
              /\ AdvanceBy(time_step, "Wait")) =>
                 /\ current_state' =
                        CheckExit(current_state.current_frame_index,
                                  current_state.time_since_start + time_step)
                 /\ value(frames', current_state') = end_position(CurrentFrame.spline)
                 /\ ~is_finished(current_state')]_vars

\* The exit check of a frame has answered Wait for more than one tick.
C18_Witness ==
    /\ current_state.tag = "CheckExit"
    /\ CurrentFrame.exit_condition = "Some"
    /\ current_state.time_since_start > 1

\* C19: set_initial_positions(p) changes the start value of frame 0's curve
\* and nothing else: the cursor, the number of frames, the conditions, end
\* value and duration of frame 0 and every other frame stay as they were, at
\* whatever cursor the call is made.
C19_SeedChangesOnlyFirstStart ==
    [][\A position \in Poses :
          SetInitialPositions(position) =>
              /\ current_state' = current_state
              /\ Len(frames') = Len(frames)
              /\ \A i \in 2 .. Len(frames) : frames'[i] = frames[i]
              /\ start_position(frames'[1].spline) = position
              /\ end_position(frames'[1].spline) = end_position(frames[1].spline)
              /\ total_duration(frames'[1].spline) = total_duration(frames[1].spline)
              /\ frames'[1].entry_condition = frames[1].entry_condition
              /\ frames'[1].exit_condition = frames[1].exit_condition]_vars

\* Frame 0 has been given a new start value while the second frame was being
\* interpolated.
C19_Witness ==
    /\ Len(frames) = 2
    /\ start_position(frames[1].spline) # motion_file.initial_positions
    /\ current_state.tag = "InterpolateSpline"
    /\ current_state.current_frame_index = 1
    /\ seeding = SeedingAfterSeed(start_position(frames[1].spline))

\* C20: next_line called on fewer than two unused points (none or one)
\* returns a result with no line and no used points and leaves unused_points
\* as it was, for every iteration count and every distance.
C20_FewerThanTwoPointsNoLine ==
    [][Len(unused_points) < 2 =>
          \A iterations \in Iterations,
             maximum_score_distance \in Distances,
             maximum_inclusion_distance \in Distances :
              NextLine(iterations, maximum_score_distance,
                       maximum_inclusion_distance) =>
                  /\ ransac_result' = RansacResult(None, <<>>)
                  /\ unused_points' = unused_points]_vars

\* next_line has been called with a single unused point and has returned the
\* empty result.
C20_Witness ==
    /\ Len(unused_points) = 1
    /\ ransac_result = RansacResult(None, <<>>)

\* ceil(duration / time_step) for a positive time step.
CeilDiv(duration, time_step) == (duration + time_step - 1) \div time_step

\* The advance calls that play the first k frames with the time step d:
\* ceil(D / d) + 3 for a frame of duration D.
RECURSIVE CallsForFrames(_, _)
CallsForFrames(k, d) ==
    IF k = 0 THEN 0
    ELSE CallsForFrames(k - 1, d) + CeilDiv(total_duration(frames[k].spline), d) + 3

\* C21: an advance that changes the variant of the cursor discards its time
\* step, the new elapsed time is 0.  So without conditions and with a fixed
\* time step d > 0 the cursor is CheckEntry(k, 0) after exactly
\* 3k + the sum of ceil(D_i / d) over the first k frames calls, and Finished
\* exactly from 3N + the sum over all N frames calls on.
C21_CallsToFinish ==
    /\ [][(current_state'.tag # current_state.tag
              /\ current_state'.tag \in {"CheckEntry", "InterpolateSpline", "CheckExit"}) =>
             current_state'.time_since_start = 0]_vars
    /\ [](/\ fed = <<>> => current_state = CheckEntry(0, 0)
          /\ fed # <<>> =>
                LET d == fed[1]
                    calls == Len(fed)
                    N == Len(frames)
                IN /\ \A k \in 0 .. N - 1 :
                          /\ calls = CallsForFrames(k, d) => current_state = CheckEntry(k, 0)
                          /\ current_state = CheckEntry(k, 0) => calls = CallsForFrames(k, d)
                   /\ current_state = Finished <=> calls >= CallsForFrames(N, d))

\* Two frames lasting one and two ticks have been played with steps of two
\* ticks, and the call that made the cursor Finished was the last one.
C21_Witness ==
    /\ Len(frames) = 2
    /\ total_duration(frames[1].spline) = 1
    /\ total_duration(frames[2].spline) = 2
    /\ fed # <<>>
    /\ fed[1] = 2
    /\ Len(fed) = 8
    /\ current_state = Finished

\* C22, as stated: an advance takes the cursor out of Interpolating(f, t) only
\* when t, the elapsed time before the step is added, has reached the total
\* duration of frame f; and every reachable Interpolating(f, t) has
\* t < duration(f) + s_max, s_max being the largest time step fed so far.
C22_ElapsedBelowDurationPlusStep ==
    /\ [][(current_state.tag = "InterpolateSpline"
              /\ current_state'.tag # "InterpolateSpline") =>
             \A time_step \in TimeSteps, condition_input \in Responses :
                 TrackedAdvance(time_step, condition_input) =>
                     /\ current_state.time_since_start >=
                            total_duration(CurrentFrame.spline)
                     /\ current_state' =
                            CheckExit(current_state.current_frame_index, 0)]_vars
    /\ [](current_state.tag = "InterpolateSpline" =>
             current_state.time_since_start <
                 total_duration(CurrentFrame.spline) + largest_step)

\* C22, amended: the bound holds for every elapsed time but 0; an
\* interpolation that has just been entered has t = 0, which is not below
\* duration(f) + s_max when the frame lasts 0 and every step so far was 0.
C22_ElapsedZeroOrBelowDurationPlusStep ==
    /\ [][(current_state.tag = "InterpolateSpline"
              /\ current_state'.tag # "InterpolateSpline") =>
             \A time_step \in TimeSteps, condition_input \in Responses :
                 TrackedAdvance(time_step, condition_input) =>
                     /\ current_state.time_since_start >=
                            total_duration(CurrentFrame.spline)
                     /\ current_state' =
                            CheckExit(current_state.current_frame_index, 0)]_vars
    /\ [](current_state.tag = "InterpolateSpline" =>
             \/ current_state.time_since_start = 0
             \/ current_state.time_since_start <
                    total_duration(CurrentFrame.spline) + largest_step)

\* The curve of a frame is queried one tick beyond its total duration.
C22_Witness ==
    /\ current_state.tag = "InterpolateSpline"
    /\ total_duration(CurrentFrame.spline) = 1
    /\ current_state.time_since_start = 2
    /\ largest_step = 2
    /\ CurrentValue = end_position(CurrentFrame.spline)

\* The frame index a cursor carries; Finished carries none.
FrameIndexOf(state) ==
    IF state.tag = "Aborted" THEN state.from_frame_index ELSE state.current_frame_index

\* C23: across any advance the frame index stays or grows by exactly 1, it
\* grows only on the step from CheckExit(f, _) to CheckEntry(f + 1, 0), within
\* a frame the variants come in the order CheckEntry, Interpolating,
\* CheckExit, and Finished is entered only from CheckExit of the last frame.
C23_FramesInOrder ==
    [][(\E time_step \in TimeSteps, condition_input \in Responses :
            AdvanceBy(time_step, condition_input)) =>
          /\ (current_state.tag # "Finished" /\ current_state'.tag # "Finished") =>
                /\ FrameIndexOf(current_state') \in
                       {FrameIndexOf(current_state), FrameIndexOf(current_state) + 1}
                /\ FrameIndexOf(current_state') = FrameIndexOf(current_state) + 1 =>
                       /\ current_state.tag = "CheckExit"
                       /\ current_state' = CheckEntry(FrameIndexOf(current_state) + 1, 0)
                /\ (current_state.tag = "CheckExit" /\ current_state'.tag = "CheckEntry") =>
                       FrameIndexOf(current_state') = FrameIndexOf(current_state) + 1
          /\ current_state.tag = "CheckEntry" =>
                current_state'.tag \in {"CheckEntry", "InterpolateSpline", "Aborted"}
          /\ current_state.tag = "InterpolateSpline" =>
                current_state'.tag \in {"InterpolateSpline", "CheckExit"}
          /\ current_state.tag = "CheckExit" =>
                current_state'.tag \in {"CheckExit", "CheckEntry", "Finished", "Aborted"}
          /\ (current_state'.tag = "Finished" /\ current_state.tag # "Finished") =>
                /\ current_state.tag = "CheckExit"
                /\ current_state.current_frame_index = Len(frames) - 1]_vars

\* The second of two frames, whose entry is conditioned, has been played up
\* to its exit check.
C23_Witness ==
    /\ Len(frames) = 2
    /\ frames[2].entry_condition = "Some"
    /\ current_state = CheckExit(1, 0)

\* C24: reset() changes the cursor only and advance changes no curve, so a
\* start pose written by set_initial_positions(p) survives later reset and
\* advance calls: after a reset value() is the start value frame 0 had before
\* the reset, p and not the authored start value.
C24_SeedSurvivesReset ==
    [][/\ Reset =>
            /\ frames' = frames
            /\ current_state' = CheckEntry(0, 0)
            /\ value(frames', current_state') = start_position(frames[1].spline)
       /\ (\E time_step \in TimeSteps, condition_input \in Responses :
               AdvanceBy(time_step, condition_input)) =>
            frames' = frames]_vars

\* A pose other than the authored one was seeded and the interpolator was
\* reset afterwards: value() is the seeded pose.
C24_Witness ==
    /\ seeding = SeedingAfterReset
    /\ current_state = CheckEntry(0, 0)
    /\ CurrentValue # motion_file.initial_positions
    /\ CurrentValue \in Poses

\* C25: conditions are evaluated in CheckEntry and CheckExit only, with the
\* elapsed time the cursor holds before the time step is added, so the first
\* evaluation in such a state sees elapsed time 0; from Interpolating,
\* Finished and Aborted the next cursor is the same under every condition
\* input, and an input that answers Abort does not abort an interpolation.
C25_ConditionsOnlyAtChecks ==
    /\ [][\A time_step \in TimeSteps :
             /\ (/\ current_state.tag = "CheckEntry"
                 /\ CurrentFrame.entry_condition = "Some"
                 /\ AdvanceBy(time_step, "ContinueOnceWaited")) =>
                    current_state' =
                        IF current_state.time_since_start = 0
                        THEN CheckEntry(current_state.current_frame_index, time_step)
                        ELSE InterpolateSpline(current_state.current_frame_index, 0)
             /\ (/\ current_state.tag = "CheckExit"
                 /\ CurrentFrame.exit_condition = "Some"
                 /\ AdvanceBy(time_step, "ContinueOnceWaited")) =>
                    current_state' =
                        IF current_state.time_since_start = 0
                        THEN CheckExit(current_state.current_frame_index, time_step)
                        ELSE IF current_state.current_frame_index = Len(frames) - 1
                             THEN Finished
                             ELSE CheckEntry(current_state.current_frame_index + 1, 0)
             /\ (/\ current_state.tag = "InterpolateSpline"
                 /\ AdvanceBy(time_step, "Abort")) =>
                    current_state'.tag \in {"InterpolateSpline", "CheckExit"}]_vars
    /\ []((\/ current_state.tag \in {"InterpolateSpline", "Finished", "Aborted"}
           \/ current_state.tag = "CheckEntry" /\ CurrentFrame.entry_condition = "None"
           \/ current_state.tag = "CheckExit" /\ CurrentFrame.exit_condition = "None") =>
             \A time_step \in TimeSteps, first \in ConditionInputs, second \in ConditionInputs :
                 advance_by(frames, current_state, time_step, first) =
                     advance_by(frames, current_state, time_step, second))

\* A frame with both conditions is being interpolated and has been advanced
\* at least once there.
C25_Witness ==
    /\ current_state.tag = "InterpolateSpline"
    /\ CurrentFrame.entry_condition = "Some"
    /\ CurrentFrame.exit_condition = "Some"
    /\ current_state.current_frame_index = 1
    /\ current_state.time_since_start > 0

====
